---- MODULE Spec2Model ----
(***************************************************************************)
(* Model of whisper_audio_overlay.py: the recording-session controller of  *)
(* start_gui (start_recording / stop_recording / the finishing helper      *)
(* thread), the recorder thread record_worker, and the live segmentation   *)
(* loop audio_worker with its transcript queue.                            *)
(*                                                                         *)
(* Strings that the code builds by concatenation (episode names, paths)    *)
(* are sequences of one-character strings; a path is a record              *)
(* [dir, base, ext].  Python's None is "None" where the value is a string, *)
(* NoThread for a thread or an Event, NoPath for a path and NoCmd for a    *)
(* command line.                                                           *)
(***************************************************************************)
EXTENDS Integers, Sequences, FiniteSets, TLC

\* ------------------------------------------------------------------ bounds

\* Number of recorder threads start_recording may create in one run.
MaxSessions == 2
\* Number of sessions in the runs that vary the configuration, the episode
\* name and the files the engine leaves behind.
MaxDataSessions == 1
\* Samples per second of the model's audio (the program runs at 16000).
SAMPLE_RATE == 1
\* Seconds of audio the live capture delivers at most.
MaxStreamSec == 30
\* Largest segment length, in seconds, of the runs that vary length and hop.
MaxSegmentSec == 3
\* Seconds of audio the capture delivers at most in those runs.
MaxHopStreamSec == 8
\* Lines of a subtitle file given to _parse_srt_duration.
MaxSrtLines == 3
\* Characters of an episode name typed into the dialog.
MaxNameLen == 2
\* Seconds of audio the capture delivers when both capture loops run.
MaxLoopStreamSec == 12
\* Seconds of audio the capture delivers while the two menus are in use.
MaxConfigStreamSec == 18

\* ------------------------------------------------------- program constants

None == "None"
NoThread == 0
NoPath == [dir |-> "", base |-> <<>>, ext |-> ""]
NoCmd == [f |-> NoPath, l |-> "", of |-> NoPath, tr |-> FALSE]

CHUNK_SEC == 2
SEGMENT_SEC == 12
STEP_SEC == 6
bytes_per_sample == 2

RECORDINGS_DIR == "recordings"
SUBTITLES_DIR == "subtitles"
VIDEO_DIR == "videos"

\* The lines the two button handlers print.
MsgAlreadyRecording == "[RECORD] Already recording."
MsgNoActive == "[RECORD] No active recording."

\* status_var texts.
StatusNotRecording == <<"Overlay running. Not recording.">>
StatusFinishing == <<"Finishing recording and generating subtitles...">>
StatusRecording(safe_name) == <<"Recording: ", safe_name, ".wav">>

OutputModes == {"english", "original"}
\* Values of LANG_DISPLAY_TO_CODE the model lets the user pick.
LangCodes == {None, "hi"}

\* --------------------------------------------------------------- variables

VARIABLES
    config,                  \* AppConfig: [output_mode, source_lang]
    status_var,              \* the status line of the window
    record_thread,           \* start_gui local: recorder thread or None
    record_stop_event,       \* start_gui local: its Event or None
    current_recording_path,  \* start_gui local: its wav path or None
    rec,                     \* recorder threads: [pc, path]
    stop_events,             \* the Event of each recorder: set or not
    proc,                    \* the audiotee process of each recorder
    helper,                  \* finishing threads, one per accepted stop
    reports,                 \* per finishing thread, the result message on show
    console,                 \* the last line a button handler printed
    stop_event,              \* start_gui: the Event of the live loop
    capture,                 \* the live loop's audiotee: bytes delivered, kind
    worker,                  \* audio_worker: [pc, exit, proc]
    segment_samples,         \* audio_worker local
    step_samples,            \* audio_worker local
    buffer,                  \* audio_worker local: samples not yet dropped
    last_line,               \* audio_worker local
    segment,                 \* audio_worker local: the last segment cut
    call,                    \* arguments and result of the last engine call
    emitted,                 \* start offsets of the segments cut so far
    prev_segment,            \* the segment cut before the last one
    text_queue,              \* queue.Queue: lines not yet polled
    text_box,                \* lines poll_queue has inserted
    poll,                    \* poll_queue: waiting in root.after or in its loop
    parse                    \* _parse_srt_duration: file, loop position, locals

ctlVars == <<config, status_var, record_thread, record_stop_event,
             current_recording_path, rec, stop_events, proc, helper, reports, console>>

liveVars == <<stop_event, capture, worker, segment_samples, step_samples,
              buffer, last_line, segment, call, emitted, prev_segment,
              text_queue, text_box, poll>>

vars == <<ctlVars, liveVars, parse>>

Tid == 1..MaxSessions

\* ----------------------------------------------------- episode name, paths

episode == <<"e", "p", "i", "s", "o", "d", "e">>

AsciiLetters == {"a", "b", "d", "e", "m", "n", "o", "r"}

AsciiDigits == {"7", "8"}

\* str.isalnum() on the characters the model uses: it is Unicode-aware, so
\* the letter e with an acute accent is alphanumeric as well.
IsAlnum(c) == c \in AsciiLetters \cup AsciiDigits \cup {"e_acute"}

SafeChar(c) == IF IsAlnum(c) \/ c \in {"_", "-"} THEN c ELSE "_"

RECURSIVE LStrip(_)
LStrip(s) == IF s # <<>> /\ Head(s) = "_" THEN LStrip(Tail(s)) ELSE s

RECURSIVE RStrip(_)
RStrip(s) ==
    IF s # <<>> /\ s[Len(s)] = "_" THEN RStrip(SubSeq(s, 1, Len(s) - 1)) ELSE s

\* "".join(safe_name_chars).strip("_"), then the default name.
SafeName(episode_name) ==
    LET replaced == [i \in 1..Len(episode_name) |-> SafeChar(episode_name[i])]
        stripped == RStrip(LStrip(replaced))
    IN IF stripped = <<>> THEN episode ELSE stripped

\* os.path.join(RECORDINGS_DIR, safe_name + ".wav")
WavPath(safe_name) == [dir |-> RECORDINGS_DIR, base |-> safe_name, ext |-> ".wav"]

\* What askstring may return: <<>> is None (cancelled) or "", else a name.
NameInputs == {<<>>, <<"a", " ">>}

\* The characters the names typed into the dialog are made of.
NameChars == {"a", "7", "_", "-", " ", "!", "e_acute"}

doraemon_877 ==
    <<"d", "o", "r", "a", "e", "m", "o", "n", " ", "8", "7", "7", "!">>

\* Every name of at most n of these characters, and the name of the prompt.
Names(n) == {doraemon_877} \cup UNION {[1..k -> NameChars] : k \in 0..n}

\* ----------------------------------------------------------------- threads

\* threading.Thread.is_alive(): started and run() not yet returned.
IsAlive(t) == rec[t].pc \notin {"unstarted", "dead"}

\* The thread object a new threading.Thread(...) call yields.
NewThread == CHOOSE t \in Tid : rec[t].pc = "unstarted" /\
                 \A u \in Tid : rec[u].pc = "unstarted" => t <= u

NoHelper == [pc |-> "none", wav_path |-> NoPath, lang_code |-> None,
             output_mode |-> None, cmd |-> NoCmd, srt_path |-> NoPath,
             video_path |-> NoPath]

InitController ==
    /\ config = [output_mode |-> "english", source_lang |-> None]
    /\ status_var = StatusNotRecording
    /\ record_thread = NoThread
    /\ record_stop_event = NoThread
    /\ current_recording_path = NoPath
    /\ rec = [t \in Tid |-> [pc |-> "unstarted", path |-> NoPath]]
    /\ stop_events = [t \in Tid |-> FALSE]
    /\ proc = [t \in Tid |-> "none"]
    /\ helper = [t \in Tid |-> NoHelper]
    /\ reports = [t \in Tid |-> <<>>]
    /\ console = None

\* _parse_srt_duration at its entry on a file of the given lines; duration
\* is its return value in milliseconds, -1 before it returns.
EnterParse(lines) == [lines |-> lines, line_no |-> 0, last_end |-> 0,
                      duration |-> -1]

\* No subtitle file is being read.
NoParse == EnterParse(<<>>)

\* A temporary file of run_whisper_cpp: the n-th call gets a name of its
\* own from NamedTemporaryFile, ext is what follows that name.
TmpFile(n, ext) == [n |-> n, ext |-> ext]

NoTmp == TmpFile(0, "")

NoLiveCmd == [f |-> NoTmp, l |-> "", of |-> NoTmp, tr |-> FALSE]

\* A sample is named by its offset in the capture stream; its value plays no
\* part in what the loop does.
NoCall == [output_mode |-> None, lang_code |-> None, running |-> FALSE,
           text |-> <<>>, cmd |-> NoLiveCmd, files |-> {}]

\* start_gui up to worker_thread.start(), for a capture adapter that
\* delivers whole chunks only (fixed) or reads of any size.
InitWorker(fixed, segment_sec, step_sec) ==
    /\ stop_event = FALSE
    /\ capture = [pos |-> 0, fixed |-> fixed]
    /\ worker = [pc |-> "begin", exit |-> "", proc |-> "none"]
    /\ segment_samples = segment_sec * SAMPLE_RATE
    /\ step_samples = step_sec * SAMPLE_RATE
    /\ buffer = <<>>
    /\ last_line = <<>>
    /\ segment = <<>>
    /\ call = NoCall
    /\ emitted = <<>>
    /\ prev_segment = <<>>
    /\ text_queue = <<>>
    /\ text_box = <<>>
    /\ poll = "after"

Init ==
    /\ InitController
    /\ InitWorker(TRUE, SEGMENT_SEC, STEP_SEC)
    /\ parse = NoParse

\* ------------------------------------------------------- AppConfig setters

set_output_mode(mode) ==
    /\ config' = [config EXCEPT !.output_mode = mode]
    /\ UNCHANGED <<status_var, record_thread, record_stop_event,
                   current_recording_path, rec, stop_events, proc, helper,
                   reports, console,
                   liveVars, parse>>

set_source_lang(code) ==
    /\ config' = [config EXCEPT !.source_lang = code]
    /\ UNCHANGED <<status_var, record_thread, record_stop_event,
                   current_recording_path, rec, stop_events, proc, helper,
                   reports, console,
                   liveVars, parse>>

\* ---------------------------------------------------------- start_recording

\* start_recording without the test of the running recorder.
start_recording_unguarded(episode_name) ==
    IF episode_name = <<>>
    THEN UNCHANGED vars
    ELSE /\ \E t \in Tid : rec[t].pc = "unstarted"
         /\ LET t == NewThread
                wav_path == WavPath(SafeName(episode_name))
            IN /\ record_stop_event' = t
               /\ stop_events' = [stop_events EXCEPT ![t] = FALSE]
               /\ current_recording_path' = wav_path
               /\ record_thread' = t
               /\ rec' = [rec EXCEPT ![t] = [pc |-> "begin", path |-> wav_path]]
               /\ status_var' = StatusRecording(SafeName(episode_name))
         /\ UNCHANGED <<config, proc, helper, reports, console,
                   liveVars, parse>>

start_recording(episode_name) ==
    IF record_thread # NoThread /\ IsAlive(record_thread)
    THEN /\ console' = MsgAlreadyRecording
         /\ UNCHANGED <<config, status_var, record_thread, record_stop_event,
                        current_recording_path, rec, stop_events, proc,
                        helper, reports,
                   liveVars, parse>>
    ELSE IF episode_name = <<>>
    THEN UNCHANGED vars
    ELSE /\ \E t \in Tid : rec[t].pc = "unstarted"
         /\ LET t == NewThread
                wav_path == WavPath(SafeName(episode_name))
            IN /\ record_stop_event' = t
               /\ stop_events' = [stop_events EXCEPT ![t] = FALSE]
               /\ current_recording_path' = wav_path
               /\ record_thread' = t
               /\ rec' = [rec EXCEPT ![t] = [pc |-> "begin", path |-> wav_path]]
               /\ status_var' = StatusRecording(SafeName(episode_name))
         /\ UNCHANGED <<config, proc, helper, reports, console,
                   liveVars, parse>>

\* ----------------------------------------------------------- stop_recording

stop_recording ==
    IF record_thread = NoThread \/ ~IsAlive(record_thread)
    THEN /\ console' = MsgNoActive
         /\ UNCHANGED <<config, status_var, record_thread, record_stop_event,
                        current_recording_path, rec, stop_events, proc,
                        helper, reports,
                   liveVars, parse>>
    ELSE /\ stop_events' = [stop_events EXCEPT ![record_stop_event] = TRUE]
         /\ status_var' = StatusFinishing
         /\ helper' = [helper EXCEPT ![record_thread] =
                          [pc |-> "join",
                           wav_path |-> current_recording_path,
                           lang_code |-> config.source_lang,
                           output_mode |-> config.output_mode,
                           cmd |-> NoCmd, srt_path |-> NoPath,
                           video_path |-> NoPath]]
         /\ record_thread' = NoThread
         /\ record_stop_event' = NoThread
         /\ current_recording_path' = NoPath
         /\ UNCHANGED <<config, rec, proc, reports, console,
                   liveVars, parse>>

\* ------------------------------------------------------------ record_worker

\* which_exec, makedirs, Popen and wave.open up to the first loop test.
record_worker_begin(t, audiotee_exe) ==
    /\ rec[t].pc = "begin"
    /\ IF audiotee_exe = None
       THEN /\ rec' = [rec EXCEPT ![t].pc = "dead"]
            /\ UNCHANGED proc
       ELSE /\ proc' = [proc EXCEPT ![t] = "running"]
            /\ rec' = [rec EXCEPT ![t].pc = "loop"]
    /\ UNCHANGED <<config, status_var, record_thread, record_stop_event,
                   current_recording_path, stop_events, helper, reports, console,
                   liveVars, parse>>

\* A recorder loop that never looks at its stop event.
record_worker_loop_deaf(t) ==
    /\ rec[t].pc = "loop"
    /\ rec' = [rec EXCEPT ![t].pc = "read"]
    /\ UNCHANGED <<config, status_var, record_thread, record_stop_event,
                   current_recording_path, stop_events, proc, helper, reports, console,
                   liveVars, parse>>

\* while not stop_event.is_set()
record_worker_loop(t) ==
    /\ rec[t].pc = "loop"
    /\ rec' = [rec EXCEPT ![t].pc = IF stop_events[t] THEN "finally" ELSE "read"]
    /\ UNCHANGED <<config, status_var, record_thread, record_stop_event,
                   current_recording_path, stop_events, proc, helper, reports, console,
                   liveVars, parse>>

\* raw = proc.stdout.read(chunk_bytes); EOF breaks, data is appended.
record_worker_read(t, raw) ==
    /\ rec[t].pc = "read"
    /\ IF raw = ""
       THEN rec' = [rec EXCEPT ![t].pc = "finally"]
       ELSE rec' = [rec EXCEPT ![t].pc = "loop"]
    /\ UNCHANGED <<config, status_var, record_thread, record_stop_event,
                   current_recording_path, stop_events, proc, helper, reports, console,
                   liveVars, parse>>

\* the with block closes the file; finally: proc.terminate(), print.
record_worker_finally(t) ==
    /\ rec[t].pc = "finally"
    /\ proc' = [proc EXCEPT ![t] = "terminated"]
    /\ rec' = [rec EXCEPT ![t].pc = "dead"]
    /\ UNCHANGED <<config, status_var, record_thread, record_stop_event,
                   current_recording_path, stop_events, helper, reports, console,
                   liveVars, parse>>

\* ---------------------------------------------------------- segment_episode

\* Code points of the characters that file names of the model are made of.
Ord(c) ==
    CASE c = "-" -> 45 [] c = "." -> 46 [] c = "1" -> 49 [] c = "7" -> 55
      [] c = "_" -> 95 [] c = "a" -> 97 [] c = "b" -> 98 [] c = "d" -> 100
      [] c = "e" -> 101 [] c = "i" -> 105 [] c = "n" -> 110 [] c = "o" -> 111
      [] c = "p" -> 112 [] c = "r" -> 114 [] c = "s" -> 115 [] c = "t" -> 116
      [] c = "v" -> 118 [] c = "w" -> 119 [] OTHER -> 233

\* Python's string order: a < b.
RECURSIVE StrLess(_, _)
StrLess(a, b) ==
    IF b = <<>> THEN FALSE
    ELSE IF a = <<>> THEN TRUE
    ELSE IF Ord(Head(a)) # Ord(Head(b)) THEN Ord(Head(a)) < Ord(Head(b))
    ELSE StrLess(Tail(a), Tail(b))

DotSrt == <<".", "s", "r", "t">>

\* What the engine may leave between the output prefix and ".srt".
SrtVariants == {<<>>, <<"-", "1">>, <<".", "w", "a", "v">>}

\* suffix = "_en" if translate_to_english else ""
Suffix(translate_to_english) ==
    IF translate_to_english THEN <<"_", "e", "n">> ELSE <<>>

\* out_prefix = os.path.join(SUBTITLES_DIR, base_name + suffix)
OutPrefix(wav_path, translate_to_english) ==
    [dir |-> SUBTITLES_DIR, base |-> wav_path.base \o Suffix(translate_to_english),
     ext |-> ""]

\* whisper_lang = lang_code if lang_code else "auto"
WhisperLang(lang_code) == IF lang_code = None THEN "auto" ELSE lang_code

\* The command line of segment_episode.
SegmentCmd(wav_path, lang_code, translate_to_english) ==
    [f |-> wav_path, l |-> WhisperLang(lang_code),
     of |-> OutPrefix(wav_path, translate_to_english),
     tr |-> translate_to_english]

SrtFile(out_prefix, variant) ==
    [dir |-> out_prefix.dir, base |-> out_prefix.base \o variant, ext |-> ".srt"]

\* sorted(glob.glob(out_prefix + "*.srt"))[0] over the files present.
FirstCandidate(present) ==
    CHOOSE v \in present : \A w \in present \ {v} : StrLess(v \o DotSrt, w \o DotSrt)

\* A lookup that does not test the exit status of the engine.
SegmentResult_anyexit(out_prefix, returncode, present) ==
    IF <<>> \in present THEN SrtFile(out_prefix, <<>>)
    ELSE IF present # {} THEN SrtFile(out_prefix, FirstCandidate(present))
    ELSE NoPath

\* The return value of segment_episode after the engine has run with exit
\* status returncode and the variants in present exist on disk.
SegmentResult(out_prefix, returncode, present) ==
    IF returncode # 0 THEN NoPath
    ELSE IF <<>> \in present THEN SrtFile(out_prefix, <<>>)
    ELSE IF present # {} THEN SrtFile(out_prefix, FirstCandidate(present))
    ELSE NoPath

\* -------------------------------------------- _finish_recording_and_segment

\* A finishing thread that does not join the recorder.
finish_join_nowait(t) ==
    /\ helper[t].pc = "join"
    /\ helper' = [helper EXCEPT ![t].pc = "segment"]
    /\ UNCHANGED <<config, status_var, record_thread, record_stop_event,
                   current_recording_path, rec, stop_events, proc, reports,
                   console,
                   liveVars, parse>>

\* rec_thread.join()
finish_join(t) ==
    /\ helper[t].pc = "join"
    /\ ~IsAlive(t)
    /\ helper' = [helper EXCEPT ![t].pc = "segment"]
    /\ UNCHANGED <<config, status_var, record_thread, record_stop_event,
                   current_recording_path, rec, stop_events, proc, reports,
                   console,
                   liveVars, parse>>

\* A finishing thread that reads AppConfig when it runs.
finish_segment_call_late(t, whisper_found) ==
    /\ helper[t].pc = "segment"
    /\ IF ~whisper_found
       THEN /\ helper' = [helper EXCEPT ![t].pc = "report"]
       ELSE /\ helper' = [helper EXCEPT
                  ![t].pc = "segment_run",
                  ![t].cmd = SegmentCmd(helper[t].wav_path, config.source_lang,
                                        config.output_mode = "english")]
    /\ UNCHANGED <<config, status_var, record_thread, record_stop_event,
                   current_recording_path, rec, stop_events, proc, reports,
                   console,
                   liveVars, parse>>

\* segment_episode(wav_path, lang_code, translate_to_english) up to the
\* start of the engine; a missing binary or model returns None at once.
finish_segment_call(t, whisper_found) ==
    /\ helper[t].pc = "segment"
    /\ LET translate_to_english == helper[t].output_mode = "english"
       IN IF ~whisper_found
          THEN /\ helper' = [helper EXCEPT ![t].pc = "report"]
          ELSE /\ helper' = [helper EXCEPT
                     ![t].pc = "segment_run",
                     ![t].cmd = SegmentCmd(helper[t].wav_path,
                                           helper[t].lang_code,
                                           translate_to_english)]
    /\ UNCHANGED <<config, status_var, record_thread, record_stop_event,
                   current_recording_path, rec, stop_events, proc, reports,
                   console,
                   liveVars, parse>>

\* A finishing thread that calls the renderer whatever segment_episode
\* returned.
finish_segment_return_render(t, returncode, present) ==
    /\ helper[t].pc = "segment_run"
    /\ LET srt_path == SegmentResult(helper[t].cmd.of, returncode, present)
       IN helper' = [helper EXCEPT
             ![t].cmd = NoCmd,
             ![t].srt_path = srt_path,
             ![t].pc = "video"]
    /\ UNCHANGED <<config, status_var, record_thread, record_stop_event,
                   current_recording_path, rec, stop_events, proc, reports,
                   console, liveVars, parse>>

\* subprocess.run returns; the subtitle file is looked up.
finish_segment_return(t, returncode, present) ==
    /\ helper[t].pc = "segment_run"
    /\ LET srt_path == SegmentResult(helper[t].cmd.of, returncode, present)
       IN helper' = [helper EXCEPT
             ![t].cmd = NoCmd,
             ![t].srt_path = srt_path,
             ![t].pc = IF srt_path # NoPath THEN "video" ELSE "report"]
    /\ UNCHANGED <<config, status_var, record_thread, record_stop_event,
                   current_recording_path, rec, stop_events, proc, reports,
                   console,
                   liveVars, parse>>

\* mp4_path = os.path.join(VIDEO_DIR, base_name + ".mp4")
Mp4Path(srt_path) == [dir |-> VIDEO_DIR, base |-> srt_path.base, ext |-> ".mp4"]

\* create_subtitle_video(srt_path) up to the start of ffmpeg; ffmpeg missing
\* or the subtitle file gone returns None at once.
finish_video_call(t, ffmpeg_found, srt_isfile) ==
    /\ helper[t].pc = "video"
    /\ IF ~ffmpeg_found \/ ~srt_isfile
       THEN /\ helper' = [helper EXCEPT ![t].pc = "report"]
       ELSE /\ helper' = [helper EXCEPT ![t].pc = "video_run"]
    /\ UNCHANGED <<config, status_var, record_thread, record_stop_event,
                   current_recording_path, rec, stop_events, proc, reports,
                   console,
                   liveVars, parse>>

\* ffmpeg returns.
finish_video_return(t, returncode) ==
    /\ helper[t].pc = "video_run"
    /\ IF returncode # 0
       THEN helper' = [helper EXCEPT ![t].pc = "report"]
       ELSE helper' = [helper EXCEPT ![t].pc = "report",
                          ![t].video_path = Mp4Path(helper[t].srt_path)]
    /\ UNCHANGED <<config, status_var, record_thread, record_stop_event,
                   current_recording_path, rec, stop_events, proc, reports,
                   console,
                   liveVars, parse>>

\* The text of the result message.
ReportMsg(wav_path, srt_path, video_path) ==
    IF srt_path # NoPath /\ video_path # NoPath
    THEN [saved |-> wav_path, subtitles |-> srt_path, video |-> video_path,
          failed |-> "nothing"]
    ELSE IF srt_path # NoPath
    THEN [saved |-> wav_path, subtitles |-> srt_path, video |-> NoPath,
          failed |-> "Video creation"]
    ELSE [saved |-> wav_path, subtitles |-> NoPath, video |-> NoPath,
          failed |-> "Subtitle generation"]

\* messagebox.showinfo(msg) puts the message on show (print(msg) on
\* tk.TclError).
finish_report(t) ==
    /\ helper[t].pc = "report"
    /\ reports' = [reports EXCEPT ![t] =
          Append(@, ReportMsg(helper[t].wav_path, helper[t].srt_path,
                              helper[t].video_path))]
    /\ helper' = [helper EXCEPT ![t].pc = "status"]
    /\ UNCHANGED <<config, status_var, record_thread, record_stop_event,
                   current_recording_path, rec, stop_events, proc, console,
                   liveVars, parse>>

\* showinfo returns when the message is dismissed;
\* status_var.set("Overlay running. Not recording."); the thread ends.
finish_status(t) ==
    /\ helper[t].pc = "status"
    /\ reports' = [reports EXCEPT ![t] = <<>>]
    /\ status_var' = StatusNotRecording
    /\ helper' = [helper EXCEPT ![t] = [NoHelper EXCEPT !.pc = "done"]]
    /\ UNCHANGED <<config, record_thread, record_stop_event,
                   current_recording_path, rec, stop_events, proc, console,
                   liveVars, parse>>

\* ------------------------------------------------------ _parse_srt_duration

\* A line of a subtitle file is a sequence of tokens: a time stamp
\* h:m:s,ms with its four numbers, an arrow, white space or other text.
Tok(k, h, m, s, ms) == [k |-> k, h |-> h, m |-> m, s |-> s, ms |-> ms]

Stamp(h, m, s, ms) == Tok("stamp", h, m, s, ms)

Arrow == Tok("-->", 0, 0, 0, 0)

ShortArrow == Tok("->", 0, 0, 0, 0)

Blank == Tok(" ", 0, 0, 0, 0)

Words == Tok("text", 0, 0, 0, 0)

RECURSIVE LStripBlank(_)
LStripBlank(line) ==
    IF line # <<>> /\ Head(line) = Blank THEN LStripBlank(Tail(line)) ELSE line

\* time_re.match(line.strip()): the pattern is looked for at the start of
\* the stripped line only; what follows the second stamp is not looked at.
TimeReMatch(line) ==
    LET l == LStripBlank(line)
    IN /\ Len(l) >= 3
       /\ l[1].k = "stamp"
       /\ l[2] = Arrow
       /\ l[3].k = "stamp"

\* int(h2) * 3600 + int(m2) * 60 + int(s2) + int(ms2) / 1000.0, in
\* milliseconds.
EndTime(line) ==
    LET e == LStripBlank(line)[3]
    IN e.h * 3600000 + e.m * 60000 + e.s * 1000 + e.ms

\* The lines the files of the model are made of.
SrtLines ==
    {<<Words>>,
     <<Stamp(0, 0, 0, 0), Arrow, Stamp(0, 0, 0, 0)>>,
     <<Stamp(0, 0, 1, 0), Arrow, Stamp(0, 0, 2, 500)>>,
     <<Stamp(0, 1, 20, 0), Arrow, Stamp(0, 1, 23, 500), Words>>,
     <<Blank, Stamp(0, 59, 0, 0), Arrow, Stamp(1, 0, 0, 0)>>,
     <<Stamp(0, 0, 1, 0), ShortArrow, Stamp(0, 0, 9, 0)>>,
     <<Words, Stamp(0, 0, 1, 0), Arrow, Stamp(0, 0, 9, 0)>>}

\* The files of at most n lines.
SrtFiles(n) == UNION {[1..k -> SrtLines] : k \in 0..n}

\* One turn of "for line in f".
parse_srt_duration_line ==
    /\ parse.duration = -1
    /\ parse.line_no < Len(parse.lines)
    /\ LET line == parse.lines[parse.line_no + 1]
           t == EndTime(line)
       IN parse' = [parse EXCEPT
             !.line_no = @ + 1,
             !.last_end = IF TimeReMatch(line) /\ t > parse.last_end
                          THEN t ELSE @]
    /\ UNCHANGED <<ctlVars, liveVars>>

\* The end of the file: the default of 60 seconds, the padding, the return.
parse_srt_duration_return ==
    /\ parse.duration = -1
    /\ parse.line_no = Len(parse.lines)
    /\ LET last_end == IF parse.last_end <= 0 THEN 60000 ELSE parse.last_end
       IN parse' = [parse EXCEPT !.last_end = last_end,
                                 !.duration = last_end + 1000]
    /\ UNCHANGED <<ctlVars, liveVars>>

\* ---------------------------------------------------------- run_whisper_cpp

\* A text is a sequence of tokens: " " is white space, a garbage phrase is
\* one token, anything else is a word.
garbage_phrases ==
    {"Subtitles by the Amara.org community", "Subtitles by Amara.org",
     "Subtitles by the community", "Thanks for watching!", "*music*",
     "* Badass music *"}

RECURSIVE LStripWs(_)
LStripWs(s) == IF s # <<>> /\ Head(s) = " " THEN LStripWs(Tail(s)) ELSE s

RECURSIVE RStripWs(_)
RStripWs(s) ==
    IF s # <<>> /\ s[Len(s)] = " " THEN RStripWs(SubSeq(s, 1, Len(s) - 1))
    ELSE s

\* str.strip()
StripWs(s) == RStripWs(LStripWs(s))

\* text.replace(g, "") for every garbage phrase g
RECURSIVE RemoveGarbage(_)
RemoveGarbage(s) ==
    IF s = <<>> THEN <<>>
    ELSE IF Head(s) \in garbage_phrases THEN RemoveGarbage(Tail(s))
    ELSE <<Head(s)>> \o RemoveGarbage(Tail(s))

\* wav_path = tmp.name of the n-th call; txt_path = wav_path + ".txt"
TmpWav(n) == TmpFile(n, ".wav")

TxtPath(wav_path) == TmpFile(wav_path.n, ".wav.txt")

\* The command line of run_whisper_cpp.
LiveCmd(wav_path, output_mode, lang_code) ==
    [f |-> wav_path, l |-> IF lang_code # None THEN lang_code ELSE "auto",
     of |-> wav_path, tr |-> output_mode = "english"]

\* A clean up that removes the WAV file only.
RemoveTmp_wav(on_disk, wav_path, txt_path) == on_disk \ {wav_path}

\* for p in (wav_path, txt_path): os.remove(p), a missing file passed over.
RemoveTmp(on_disk, wav_path, txt_path) == on_disk \ {wav_path, txt_path}

\* The temporary files left when run_whisper_cpp returns: the engine has
\* written the text file or not, then the clean up runs.
FilesAtReturn(on_disk, wav_path, txt) ==
    LET txt_path == TxtPath(wav_path)
        written == IF txt.exists THEN {txt_path} ELSE {}
    IN RemoveTmp(on_disk \cup written, wav_path, txt_path)

\* The value run_whisper_cpp returns when the engine has exited with
\* returncode and txt is the text file it left (exists, content).
WhisperText(returncode, txt) ==
    LET text == IF txt.exists THEN StripWs(txt.content) ELSE <<>>
    IN IF text # <<>> THEN StripWs(RemoveGarbage(text)) ELSE text

NoTxt == [exists |-> FALSE, content |-> <<>>]

\* The text files the engine may leave behind.
TxtOutputs ==
    {NoTxt} \cup
    {[exists |-> TRUE, content |-> c] :
        c \in {<<>>, <<"a">>, <<"b">>, <<" ", "a", " ", "Thanks for watching!">>}}

\* ------------------------------------------------------------- audio_worker

chunk_bytes == SAMPLE_RATE * CHUNK_SEC * bytes_per_sample

\* which_exec and the two isfile tests, then Popen and the two locals.
audio_worker_begin(found) ==
    /\ worker.pc = "begin"
    /\ IF ~found
       THEN worker' = [pc |-> "done", exit |-> "missing", proc |-> "none"]
       ELSE worker' = [pc |-> "loop", exit |-> "", proc |-> "running"]
    /\ buffer' = <<>>
    /\ last_line' = <<>>
    /\ UNCHANGED <<stop_event, capture, segment_samples, step_samples, segment,
                   call, emitted, prev_segment, text_queue, text_box, poll, ctlVars, parse>>

\* A live loop that never looks at its stop event.
audio_worker_loop_deaf ==
    /\ worker.pc = "loop"
    /\ worker' = [worker EXCEPT !.pc = "read"]
    /\ UNCHANGED <<stop_event, capture, segment_samples, step_samples, buffer,
                   last_line, segment, call, emitted, prev_segment, text_queue,
                   text_box, poll, ctlVars, parse>>

\* while not stop_event.is_set()
audio_worker_loop ==
    /\ worker.pc = "loop"
    /\ worker' = IF stop_event
                 THEN [worker EXCEPT !.pc = "finally", !.exit = "stop"]
                 ELSE [worker EXCEPT !.pc = "read"]
    /\ UNCHANGED <<stop_event, capture, segment_samples, step_samples, buffer,
                   last_line, segment, call, emitted, prev_segment, text_queue,
                   text_box, poll, ctlVars, parse>>

\* np.frombuffer(raw, "<i2") / 32768.0: the samples held by nbytes bytes
\* read at byte offset pos.
Samples(pos, nbytes) ==
    [i \in 1..(nbytes \div bytes_per_sample) |-> pos \div bytes_per_sample + i - 1]

\* raw = proc.stdout.read(chunk_bytes) returns nbytes bytes: none at the end
\* of the stream; a number of bytes that is no whole number of samples makes
\* np.frombuffer raise ValueError.
audio_worker_read(nbytes) ==
    /\ worker.pc = "read"
    /\ nbytes \in 0..chunk_bytes
    /\ capture.fixed => nbytes \in {0, chunk_bytes}
    /\ capture' = [capture EXCEPT !.pos = @ + nbytes]
    /\ IF nbytes = 0
       THEN /\ worker' = [worker EXCEPT !.pc = "finally", !.exit = "eof"]
            /\ UNCHANGED buffer
       ELSE IF nbytes % bytes_per_sample # 0
       THEN /\ worker' = [worker EXCEPT !.pc = "finally", !.exit = "error"]
            /\ UNCHANGED buffer
       ELSE /\ worker' = [worker EXCEPT !.pc = "segment"]
            /\ buffer' = buffer \o Samples(capture.pos, nbytes)
    /\ UNCHANGED <<stop_event, segment_samples, step_samples, last_line,
                   segment, call, emitted, prev_segment, text_queue, text_box,
                   poll, ctlVars, parse>>

\* A loop that cuts a segment as soon as one hop of samples is buffered.
HasSegment_hop(buf) == Len(buf) >= step_samples

\* A loop that wants more than one segment of samples in the buffer.
HasSegment_strict(buf) == Len(buf) > segment_samples

\* while buffer.shape[0] >= segment_samples
HasSegment(buf) == Len(buf) >= segment_samples

\* segment = buffer[:segment_samples]
CutSegment(buf) ==
    SubSeq(buf, 1, IF Len(buf) < segment_samples THEN Len(buf) ELSE segment_samples)

\* A loop that drops the whole segment after each call.
Advance_segment(buf) == SubSeq(buf, segment_samples + 1, Len(buf))

\* buffer = buffer[step_samples:]
Advance(buf) == SubSeq(buf, step_samples + 1, Len(buf))

\* A filter that forwards every non-empty text.
Accept_any(text, last) == text # <<>>

\* if text and text != last_line
Accept(text, last) == text # <<>> /\ text # last

\* The test of the inner loop; a segment is cut and get_output_mode is
\* called, or the loop sleeps and goes round.
audio_worker_segment ==
    /\ worker.pc = "segment"
    /\ IF HasSegment(buffer)
       THEN /\ segment' = CutSegment(buffer)
            /\ prev_segment' = segment
            /\ emitted' = Append(emitted, buffer[1])
            /\ call' = [NoCall EXCEPT !.output_mode = config.output_mode,
                                      !.files = call.files]
            /\ worker' = [worker EXCEPT !.pc = "call"]
       ELSE /\ worker' = [worker EXCEPT !.pc = "loop"]
            /\ UNCHANGED <<segment, prev_segment, emitted, call>>
    /\ UNCHANGED <<stop_event, capture, segment_samples, step_samples, buffer,
                   last_line, text_queue, text_box, poll, ctlVars, parse>>

\* A call that leaves the language to the engine whatever AppConfig holds.
audio_worker_call_auto ==
    /\ worker.pc = "call"
    /\ LET wav_path == TmpWav(Len(emitted))
       IN call' = [call EXCEPT
             !.lang_code = None,
             !.running = TRUE,
             !.cmd = LiveCmd(wav_path, call.output_mode, None),
             !.files = @ \cup {wav_path}]
    /\ worker' = [worker EXCEPT !.pc = "whisper"]
    /\ UNCHANGED <<stop_event, capture, segment_samples, step_samples, buffer,
                   last_line, segment, emitted, prev_segment, text_queue,
                   text_box, poll, ctlVars, parse>>

\* get_source_lang is called and run_whisper_cpp is entered: the segment is
\* written to a temporary WAV file and the engine is started.
audio_worker_call ==
    /\ worker.pc = "call"
    /\ LET wav_path == TmpWav(Len(emitted))
           lang_code == config.source_lang
       IN call' = [call EXCEPT
             !.lang_code = lang_code,
             !.running = TRUE,
             !.cmd = LiveCmd(wav_path, call.output_mode, lang_code),
             !.files = @ \cup {wav_path}]
    /\ worker' = [worker EXCEPT !.pc = "whisper"]
    /\ UNCHANGED <<stop_event, capture, segment_samples, step_samples, buffer,
                   last_line, segment, emitted, prev_segment, text_queue,
                   text_box, poll, ctlVars, parse>>

\* A loop whose queue holds one line: put waits while the line is unread.
audio_worker_whisper_bounded(returncode, txt) ==
    /\ worker.pc = "whisper"
    /\ LET text == WhisperText(returncode, txt)
       IN /\ call' = [call EXCEPT
                         !.running = FALSE, !.text = text,
                         !.files = FilesAtReturn(@, call.cmd.f, txt)]
          /\ IF Accept(text, last_line)
             THEN /\ text_queue = <<>>
                  /\ last_line' = text
                  /\ text_queue' = Append(text_queue, text)
             ELSE UNCHANGED <<last_line, text_queue>>
    /\ buffer' = Advance(buffer)
    /\ worker' = [worker EXCEPT !.pc = "segment"]
    /\ UNCHANGED <<stop_event, capture, segment_samples, step_samples, segment,
                   emitted, prev_segment, text_box, poll, ctlVars, parse>>

\* A loop whose inner test is an if: after one segment it reads again.
audio_worker_whisper_if(returncode, txt) ==
    /\ worker.pc = "whisper"
    /\ LET text == WhisperText(returncode, txt)
       IN /\ call' = [call EXCEPT
                         !.running = FALSE, !.text = text,
                         !.files = FilesAtReturn(@, call.cmd.f, txt)]
          /\ IF Accept(text, last_line)
             THEN /\ last_line' = text
                  /\ text_queue' = Append(text_queue, text)
             ELSE UNCHANGED <<last_line, text_queue>>
    /\ buffer' = Advance(buffer)
    /\ worker' = [worker EXCEPT !.pc = "loop"]
    /\ UNCHANGED <<stop_event, capture, segment_samples, step_samples, segment,
                   emitted, prev_segment, text_box, poll, ctlVars, parse>>

\* run_whisper_cpp returns; the dedup test, the put and the hop.
audio_worker_whisper(returncode, txt) ==
    /\ worker.pc = "whisper"
    /\ LET text == WhisperText(returncode, txt)
       IN /\ call' = [call EXCEPT
                         !.running = FALSE, !.text = text,
                         !.files = FilesAtReturn(@, call.cmd.f, txt)]
          /\ IF Accept(text, last_line)
             THEN /\ last_line' = text
                  /\ text_queue' = Append(text_queue, text)
             ELSE UNCHANGED <<last_line, text_queue>>
    /\ buffer' = Advance(buffer)
    /\ worker' = [worker EXCEPT !.pc = "segment"]
    /\ UNCHANGED <<stop_event, capture, segment_samples, step_samples, segment,
                   emitted, prev_segment, text_box, poll, ctlVars, parse>>

\* A live loop that leaves its capture process running.
audio_worker_finally_leak ==
    /\ worker.pc = "finally"
    /\ worker' = [worker EXCEPT !.pc = "done"]
    /\ UNCHANGED <<stop_event, capture, segment_samples, step_samples, buffer,
                   last_line, segment, call, emitted, prev_segment, text_queue,
                   text_box, poll, ctlVars, parse>>

\* finally: proc.terminate()
audio_worker_finally ==
    /\ worker.pc = "finally"
    /\ worker' = [worker EXCEPT !.pc = "done", !.proc = "terminated"]
    /\ UNCHANGED <<stop_event, capture, segment_samples, step_samples, buffer,
                   last_line, segment, call, emitted, prev_segment, text_queue,
                   text_box, poll, ctlVars, parse>>

\* ------------------------------------------------------ poll_queue, on_close

\* The callback root.after(100, poll_queue) fires while the window is open
\* and enters "while True".
poll_queue_fire ==
    /\ poll = "after"
    /\ ~stop_event
    /\ poll' = "get"
    /\ UNCHANGED <<stop_event, capture, worker, segment_samples, step_samples,
                   buffer, last_line, segment, call, emitted, prev_segment,
                   text_queue, text_box, ctlVars, parse>>

\* One turn of the loop: get_nowait and insert, or queue.Empty, which ends
\* the loop and schedules the next callback.
poll_queue_get ==
    /\ poll = "get"
    /\ IF text_queue = <<>>
       THEN /\ poll' = "after"
            /\ UNCHANGED <<text_queue, text_box>>
       ELSE /\ text_box' = Append(text_box, Head(text_queue))
            /\ text_queue' = Tail(text_queue)
            /\ UNCHANGED poll
    /\ UNCHANGED <<stop_event, capture, worker, segment_samples, step_samples,
                   buffer, last_line, segment, call, emitted, prev_segment,
                   ctlVars, parse>>

\* The callback on the Tk main thread, the live loop running beside it.
poll_queue ==
    \/ poll_queue_fire
    \/ poll_queue_get

\* WM_DELETE_WINDOW is handled by the main thread between two callbacks;
\* root.destroy() ends the polling.
on_close ==
    /\ poll = "after"
    /\ ~stop_event
    /\ stop_event' = TRUE
    /\ UNCHANGED <<capture, worker, segment_samples, step_samples, buffer,
                   last_line, segment, call, emitted, prev_segment, text_queue,
                   text_box, poll, ctlVars, parse>>

\* ---------------------------------------------------------- specifications

\* The recorder thread of session t.
record_worker(t) ==
    \/ \E audiotee_exe \in {None, "audiotee"} : record_worker_begin(t, audiotee_exe)
    \/ record_worker_loop(t)
    \/ \E raw \in {"", "chunk"} : record_worker_read(t, raw)
    \/ record_worker_finally(t)

\* The finishing thread of session t; srt_sets are the sets of subtitle
\* files the engine may leave behind.
finish_recording_and_segment(t, srt_sets) ==
    \/ finish_join(t)
    \/ \E whisper_found \in BOOLEAN : finish_segment_call(t, whisper_found)
    \/ \E returncode \in {0, 1}, present \in srt_sets :
          finish_segment_return(t, returncode, present)
    \/ \E ffmpeg_found \in BOOLEAN, srt_isfile \in BOOLEAN :
          finish_video_call(t, ffmpeg_found, srt_isfile)
    \/ \E returncode \in {0, 1} : finish_video_return(t, returncode)
    \/ finish_report(t)
    \/ finish_status(t)

\* Number of recorder threads created so far.
Started == Cardinality({t \in Tid : rec[t].pc # "unstarted"})

\* A press of Record that is within the bound on sessions.
Record(episode_name, bound) ==
    /\ \/ record_thread # NoThread /\ IsAlive(record_thread)
       \/ episode_name = <<>>
       \/ Started < bound
    /\ start_recording(episode_name)

\* The controller under every interleaving of the two buttons, the recorder
\* threads and the finishing threads; the configuration is left alone and
\* the engine writes the expected subtitle file or none.
Next ==
    \/ \E episode_name \in NameInputs : Record(episode_name, MaxSessions)
    \/ stop_recording
    \/ \E t \in Tid : record_worker(t)
    \/ \E t \in Tid : finish_recording_and_segment(t, {{}, {<<>>}})

Spec == Init /\ [][Next]_vars

\* The scheduler runs every started thread, a pending chunk read returns and
\* the external engines terminate.
FairSpec ==
    /\ Spec
    /\ \A t \in Tid : WF_vars(record_worker(t))
    /\ \A t \in Tid : WF_vars(finish_recording_and_segment(t, {{}, {<<>>}}))

\* The same with the two configuration menus in use and every set of
\* subtitle files the engine may leave behind.
DataNext ==
    \/ \E episode_name \in NameInputs : Record(episode_name, MaxDataSessions)
    \/ stop_recording
    \/ \E mode \in OutputModes : set_output_mode(mode)
    \/ \E code \in LangCodes : set_source_lang(code)
    \/ \E t \in Tid : record_worker(t)
    \/ \E t \in Tid : finish_recording_and_segment(t, SUBSET SrtVariants)

DataSpec == Init /\ [][DataNext]_vars

\* The live loop on a capture stream of at most max_sec seconds whose reads
\* return a number of bytes in sizes, with an engine that leaves one of the
\* text files in outputs.
audio_worker_on(max_sec, sizes, outputs) ==
    \/ \E found \in BOOLEAN : audio_worker_begin(found)
    \/ audio_worker_loop
    \/ \E nbytes \in sizes :
          /\ capture.pos + nbytes <= max_sec * SAMPLE_RATE * bytes_per_sample
          /\ audio_worker_read(nbytes)
    \/ audio_worker_segment
    \/ audio_worker_call
    \/ \E returncode \in {0, 1}, txt \in outputs :
          audio_worker_whisper(returncode, txt)
    \/ audio_worker_finally

\* The live loop under reads of every size and every text file.
audio_worker(max_sec) == audio_worker_on(max_sec, 0..chunk_bytes, TxtOutputs)

\* The live loop with the configured segment and hop, the window polling the
\* queue until it is closed.
LiveInit ==
    /\ InitController
    /\ parse = NoParse
    /\ \E fixed \in BOOLEAN : InitWorker(fixed, SEGMENT_SEC, STEP_SEC)

LiveNext ==
    \/ audio_worker(MaxStreamSec)
    \/ poll_queue
    \/ on_close

LiveSpec == LiveInit /\ [][LiveNext]_vars

\* Tk runs the callback it has scheduled, and a callback under way goes on.
FairLiveSpec == LiveSpec /\ WF_vars(poll_queue)

\* The live loop while the two configuration menus are in use.
ConfigNext ==
    \/ audio_worker(MaxConfigStreamSec)
    \/ \E mode \in OutputModes : set_output_mode(mode)
    \/ \E code \in LangCodes : set_source_lang(code)
    \/ on_close

ConfigSpec == LiveInit /\ [][ConfigNext]_vars

\* The same loop for every segment length up to MaxSegmentSec and every hop
\* from one second up to the segment length.
HopInit ==
    /\ InitController
    /\ parse = NoParse
    /\ \E fixed \in BOOLEAN, segment_sec \in 1..MaxSegmentSec :
          \E step_sec \in 1..segment_sec : InitWorker(fixed, segment_sec, step_sec)

HopNext ==
    \/ audio_worker(MaxHopStreamSec)
    \/ poll_queue
    \/ on_close

HopSpec == HopInit /\ [][HopNext]_vars

\* The controller with the configuration left alone, under every set of
\* subtitle files the engine may leave behind.
LookupNext ==
    \/ \E episode_name \in NameInputs : Record(episode_name, MaxDataSessions)
    \/ stop_recording
    \/ \E t \in Tid : record_worker(t)
    \/ \E t \in Tid : finish_recording_and_segment(t, SUBSET SrtVariants)

LookupSpec == Init /\ [][LookupNext]_vars

\* The two capture loops side by side: the live loop until the window is
\* closed, one recorder between the Record and the Stop button. A read of
\* the live loop returns a whole chunk, a torn sample or the end of the
\* stream; the engine leaves a text or none.
LoopNext ==
    \/ \E episode_name \in NameInputs : Record(episode_name, MaxDataSessions)
    \/ stop_recording
    \/ \E t \in Tid : record_worker(t)
    \/ audio_worker_on(MaxLoopStreamSec, {0, 1, chunk_bytes},
                       {NoTxt, [exists |-> TRUE, content |-> <<"a">>]})
    \/ on_close

LoopSpec == LiveInit /\ [][LoopNext]_vars

\* Both loops are scheduled and a pending chunk read returns.
FairLoopSpec ==
    /\ LoopSpec
    /\ WF_vars(audio_worker_on(MaxLoopStreamSec, {0, 1, chunk_bytes},
                               {NoTxt, [exists |-> TRUE, content |-> <<"a">>]}))
    /\ \A t \in Tid : WF_vars(record_worker(t))

\* One session under every episode name of at most MaxNameLen characters.
NameNext ==
    \/ \E episode_name \in Names(MaxNameLen) :
          Record(episode_name, MaxDataSessions)
    \/ stop_recording
    \/ \E t \in Tid : record_worker(t)
    \/ \E t \in Tid : finish_recording_and_segment(t, {{}, {<<>>}})

NameSpec == Init /\ [][NameNext]_vars

\* _parse_srt_duration on every subtitle file of at most MaxSrtLines lines.
SrtInit ==
    /\ InitController
    /\ InitWorker(TRUE, SEGMENT_SEC, STEP_SEC)
    /\ \E lines \in SrtFiles(MaxSrtLines) : parse = EnterParse(lines)

SrtNext ==
    \/ parse_srt_duration_line
    \/ parse_srt_duration_return

SrtSpec == SrtInit /\ [][SrtNext]_vars

\* ------------------------------------------------------------------ claims

\* Session t is Recording: its recorder runs and stop has not been accepted.
Recording(t) == IsAlive(t) /\ helper[t].pc = "none"

\* Session t is Finishing: stop was accepted and its pipeline has not ended.
Finishing(t) == helper[t].pc \notin {"none", "done"}

Sessions == {t \in Tid : Recording(t) \/ Finishing(t)}

\* C1: in every reachable state at most one recording session exists, where
\* a session exists while it is Recording or in its Finishing pipeline.
C1_AtMostOneSession == Cardinality(Sessions) <= 1

\* C2: a start while the recorder runs prints the no-op line and changes
\* nothing else, exactly one unstopped recorder remains; a stop without a
\* running recorder prints its line, changes nothing else and spawns no
\* finishing thread.
C2_IgnoredCallsChangeNothing ==
    [][/\ (/\ record_thread # NoThread
           /\ IsAlive(record_thread)
           /\ \E episode_name \in NameInputs : start_recording(episode_name))
          => /\ UNCHANGED <<config, status_var, record_thread, record_stop_event,
                            current_recording_path, rec, stop_events, proc,
                            helper, reports>>
             /\ console' = MsgAlreadyRecording
             /\ {t \in Tid : rec'[t].pc \notin {"unstarted", "dead"}
                             /\ ~stop_events'[t]} = {record_thread'}
       /\ (/\ (record_thread = NoThread \/ ~IsAlive(record_thread))
           /\ stop_recording)
          => /\ UNCHANGED <<config, status_var, record_thread, record_stop_event,
                            current_recording_path, rec, stop_events, proc,
                            helper, reports>>
             /\ console' = MsgNoActive]_vars

\* A start was ignored and the one recorder is still running, unstopped.
C2_Witness ==
    /\ console = MsgAlreadyRecording
    /\ record_thread # NoThread
    /\ IsAlive(record_thread)
    /\ ~stop_events[record_thread]

C4_StopAlwaysFinishes ==
    [][(record_thread # NoThread /\ stop_recording)
       => /\ stop_events'[record_thread]
          /\ helper'[record_thread].pc = "join"
          /\ helper'[record_thread].wav_path = current_recording_path]_vars

\* C5: a pipeline starts the transcription only with its recorder
\* terminated, starts the renderer only after the transcription has returned
\* a subtitle file, shows its report only after both, and sets the status
\* back only after the report.
C5_StagesInOrder ==
    [][\A t \in Tid :
          /\ (helper[t].pc = "segment" /\ helper'[t].pc # "segment")
             => rec[t].pc = "dead"
          /\ (helper[t].pc # "video_run" /\ helper'[t].pc = "video_run")
             => helper[t].pc = "video" /\ helper[t].srt_path # NoPath
          /\ (helper[t].pc # "video" /\ helper'[t].pc = "video")
             => helper[t].pc = "segment_run" /\ helper'[t].srt_path # NoPath
          /\ reports'[t] # reports[t] /\ reports'[t] # <<>>
             => /\ helper[t].pc = "report"
                /\ helper[t].cmd = NoCmd
                /\ helper[t].video_path # NoPath => helper[t].srt_path # NoPath
          /\ (helper[t].pc # "report" /\ helper'[t].pc = "report")
             => helper[t].pc \in {"segment", "segment_run", "video", "video_run"}
          /\ (helper[t].pc # "done" /\ helper'[t].pc = "done")
             => helper[t].pc = "status" /\ Len(reports[t]) = 1]_vars

\* A pipeline has transcribed, rendered and reported, and is about to set
\* the status back.
C5_Witness ==
    \E t \in Tid :
       /\ helper[t].pc = "status"
       /\ reports[t] # <<>>
       /\ reports[t][1].failed = "nothing"
       /\ rec[t].pc = "dead"

\* C6: the finishing thread holds the language and the mode AppConfig had
\* when stop was accepted, no later setter changes them, and the engine's
\* language, translate flag and output prefix come from them.
C6_SnapshotAtStop ==
    [][\A t \in Tid :
          /\ (helper[t].pc = "none" /\ helper'[t].pc = "join")
             => /\ helper'[t].lang_code = config.source_lang
                /\ helper'[t].output_mode = config.output_mode
          /\ (helper[t].pc \notin {"none", "done"} /\ helper'[t].pc # "done")
             => /\ helper'[t].lang_code = helper[t].lang_code
                /\ helper'[t].output_mode = helper[t].output_mode
          /\ (helper[t].pc = "segment" /\ helper'[t].pc = "segment_run")
             => /\ helper'[t].cmd.l = IF helper[t].lang_code = None THEN "auto"
                                      ELSE helper[t].lang_code
                /\ helper'[t].cmd.tr = (helper[t].output_mode = "english")
                /\ helper'[t].cmd.of.base =
                      helper[t].wav_path.base \o
                      (IF helper[t].output_mode = "english"
                       THEN <<"_", "e", "n">> ELSE <<>>)]_vars

\* The engine runs with the values of stop time while AppConfig holds
\* another language and another mode.
C6_Witness ==
    \E t \in Tid :
       /\ helper[t].pc = "segment_run"
       /\ config.source_lang # helper[t].lang_code
       /\ config.output_mode # helper[t].output_mode
       /\ helper[t].cmd.l = WhisperLang(helper[t].lang_code)

\* The samples of the stream, by offset, from offset first on.
StreamFrom(first, n) == [i \in 1..n |-> first + i - 1]

\* C7: whatever the sizes of the reads, the k-th segment handed to the engine
\* (k from 0) starts at stream offset k * hop and holds exactly the
\* configured number of samples.
C7_SegmentLengthAndOffset ==
    /\ \A k \in 1..Len(emitted) : emitted[k] = (k - 1) * step_samples
    /\ emitted # <<>>
       => /\ Len(segment) = segment_samples
          /\ segment = StreamFrom(emitted[Len(emitted)], segment_samples)
    /\ Len(emitted) >= 2
       => /\ Len(prev_segment) = segment_samples
          /\ prev_segment[1] = emitted[Len(emitted) - 1]

\* Three segments were cut from reads that were not all whole chunks.
C7_Witness ==
    /\ Len(emitted) = 3
    /\ ~capture.fixed
    /\ capture.pos % chunk_bytes # 0
    /\ worker.pc = "whisper"

Range(seq) == {seq[i] : i \in 1..Len(seq)}

\* C8: for every hop <= length the last length - hop samples of a segment
\* are the first length - hop samples of the next one, the two share exactly
\* these, and with hop = length the next segment starts at the sample after
\* the last one of the segment before.
C8_OverlapIsLengthMinusHop ==
    Len(emitted) >= 2
    => LET overlap == segment_samples - step_samples
       IN /\ SubSeq(prev_segment, step_samples + 1, segment_samples)
                = SubSeq(segment, 1, overlap)
          /\ Cardinality(Range(prev_segment) \cap Range(segment)) = overlap
          /\ segment[1] = prev_segment[1] + step_samples
          /\ step_samples = segment_samples
             => segment[1] = prev_segment[Len(prev_segment)] + 1

\* Three overlapping segments were cut with a hop of two seconds.
C8_Witness ==
    /\ Len(emitted) = 3
    /\ step_samples = 2 * SAMPLE_RATE
    /\ segment_samples = 3 * SAMPLE_RATE

\* C9: when the capture has delivered 30 seconds of audio and then the end of
\* the stream, the loop has called the engine exactly 4 times, for the
\* segments at 0, 6, 12 and 18 seconds, and has left its loop.
C9_ThirtySecondsFourCalls ==
    (/\ worker.exit = "eof"
     /\ capture.pos = 30 * SAMPLE_RATE * bytes_per_sample)
    => /\ worker.pc \in {"finally", "done"}
       /\ ~call.running
       /\ emitted = <<0, 6 * SAMPLE_RATE, 12 * SAMPLE_RATE, 18 * SAMPLE_RATE>>

\* The loop has ended on the end of a 30 second stream read in whole chunks.
C9_Witness ==
    /\ worker.pc = "done"
    /\ worker.exit = "eof"
    /\ capture.fixed
    /\ capture.pos = 30 * SAMPLE_RATE * bytes_per_sample
    /\ Len(emitted) = 4

\* Every line put on the queue so far, polled or not.
pushed == text_box \o text_queue

\* C10: a result is put on the queue exactly when it is non-empty and differs
\* from the line put last; the queue never gets an empty line nor the same
\* line twice in a row.
C10_DedupFilter ==
    /\ [](\A i \in 1..Len(pushed) :
             /\ pushed[i] # <<>>
             /\ i > 1 => pushed[i] # pushed[i - 1])
    /\ [][(worker.pc = "whisper" /\ worker'.pc # "whisper")
          => LET text == call'.text
                 forwarded == /\ text # <<>>
                              /\ pushed # <<>> => text # pushed[Len(pushed)]
             IN (text_box \o text_queue)' =
                   IF forwarded THEN Append(pushed, text) ELSE pushed]_vars

\* The results a, b, a, a put three lines on the queue.
C10_Witness ==
    /\ pushed = << <<"a">>, <<"b">>, <<"a">> >>
    /\ Len(emitted) = 4
    /\ ~call.running
    /\ call.text = <<"a">>

\* C11: the live loop is in at most one engine call at a time, and only at
\* its call site; a chunk is read only when no call runs and the buffer holds
\* no further whole segment; segments are cut in rising stream offset only
\* when the call before has returned and its line, if it has one, is the last
\* line put on the queue; the queue only grows at its end.
C11_SegmentsInStreamOrder ==
    /\ [](/\ call.running <=> worker.pc = "whisper"
          /\ worker.pc = "read" => ~call.running /\ ~HasSegment(buffer)
          /\ \A k \in 2..Len(emitted) : emitted[k - 1] < emitted[k]
          /\ (~call.running /\ call.text # <<>>)
             => pushed # <<>> /\ pushed[Len(pushed)] = call.text)
    /\ [][/\ emitted' # emitted
             => /\ ~call.running
                /\ emitted' = Append(emitted, buffer[1])
                /\ call.text # <<>> => pushed[Len(pushed)] = call.text
                /\ (text_box \o text_queue)' = pushed
          /\ capture' # capture => ~call.running /\ ~HasSegment(buffer)
          /\ \/ (text_box \o text_queue)' = pushed
             \/ /\ (text_box \o text_queue)' = Append(pushed, call'.text)
                /\ call.running /\ ~call'.running]_vars

\* A call runs for the second segment cut from the one chunk read so far,
\* the line of the first segment being on the queue.
C11_Witness ==
    /\ worker.pc = "whisper"
    /\ call.running
    /\ Len(emitted) = 2
    /\ capture.pos = chunk_bytes
    /\ pushed # <<>>

\* The end times of the lines of a file that hold a time stamp range.
EndTimes(lines) ==
    {EndTime(lines[i]) : i \in {j \in 1..Len(lines) : TimeReMatch(lines[j])}}

Max(S) == CHOOSE x \in S : \A y \in S : y <= x

\* C12: the value returned for a file is the largest end time of its time
\* stamp range lines plus one second, and 60 seconds for a file without such
\* a line (times in milliseconds).
C12_DurationIsMaxEndPlusOne ==
    parse.duration # -1
    => parse.duration = IF EndTimes(parse.lines) = {} THEN 60000
                        ELSE Max(EndTimes(parse.lines)) + 1000

\* The file whose latest end time is 00:01:23,500, on a line that is not the
\* last one, has returned 84.5 seconds.
C12_Example ==
    /\ parse.duration = 84500
    /\ Len(parse.lines) = 3
    /\ EndTime(parse.lines[3]) < 83500

\* The characters of [A-Za-z0-9_-] among those of the model.
AllowedChars == AsciiLetters \cup AsciiDigits \cup {"_", "-"}

\* C13: the base name of every recording file is made of characters of
\* [A-Za-z0-9_-] only; a name made of other characters only yields
\* "episode", and "doraemon 877!" yields "doraemon_877".
C13_SafeNameCharset ==
    /\ [](\A t \in Tid :
             rec[t].path # NoPath => Range(rec[t].path.base) \subseteq AllowedChars)
    /\ [][\A episode_name \in Names(MaxNameLen) :
            (/\ start_recording(episode_name)
             /\ record_thread' # record_thread)
            => LET base == current_recording_path'.base
               IN /\ rec'[record_thread'].path = current_recording_path'
                  /\ current_recording_path'.dir = RECORDINGS_DIR
                  /\ current_recording_path'.ext = ".wav"
                  /\ Range(base) \subseteq AllowedChars
                  /\ Range(episode_name) \cap AllowedChars = {}
                     => base = episode
                  /\ episode_name = doraemon_877
                     => base = <<"d", "o", "r", "a", "e", "m", "o", "n", "_",
                                 "8", "7", "7">>]_vars

\* The recording of "doraemon 877!" goes to recordings/doraemon_877.wav.
C13_Example ==
    /\ record_thread # NoThread
    /\ current_recording_path.base =
          <<"d", "o", "r", "a", "e", "m", "o", "n", "_", "8", "7", "7">>
    /\ rec[record_thread].pc = "read"

\* C14: when the engine exits with a nonzero status the call of the live
\* loop returns the empty text and nothing is put on the queue, whether or
\* not the engine left a text file.
C14_NonzeroExitGivesNoText ==
    [][\A returncode \in {1}, txt \in TxtOutputs :
          audio_worker_whisper(returncode, txt)
          => /\ call'.text = <<>>
             /\ text_queue' = text_queue]_vars

\* C15: a loop starts a read only with its stop signal unset and, found set
\* at the loop test, leaves; so with the signal set the capture position
\* moves on only by the one read that was under way, and the recorder
\* appends only the chunk of that read. The signal is never unset.
C15_StopSeenBetweenReads ==
    [][/\ (worker.pc # "read" /\ worker'.pc = "read")
          => worker.pc = "loop" /\ ~stop_event
       /\ (worker.pc = "loop" /\ stop_event /\ worker' # worker)
          => worker'.pc = "finally"
       /\ (stop_event /\ capture' # capture)
          => worker.pc = "read" /\ worker'.pc # "read"
       /\ stop_event => stop_event'
       /\ \A t \in Tid :
             /\ (rec[t].pc # "read" /\ rec'[t].pc = "read")
                => rec[t].pc = "loop" /\ ~stop_events[t]
             /\ (rec[t].pc = "loop" /\ stop_events[t] /\ rec'[t] # rec[t])
                => rec'[t].pc = "finally"
             /\ (stop_events[t] /\ record_worker_read(t, "chunk"))
                => rec'[t].pc = "loop"
             /\ stop_events[t] => stop_events'[t]]_vars

\* Both signals are set while each loop is in a read.
C15_Witness ==
    /\ stop_event
    /\ worker.pc = "read"
    /\ \E t \in Tid : stop_events[t] /\ rec[t].pc = "read"

\* C16: after an empty read the loop reads no more and ends; a recorder
\* that has left its loop ends; a loop that has ended after it spawned its
\* capture process has called terminate on it, whether it left on the stop
\* signal, on the end of the stream or on an error.
C16_EndOfStreamEndsLoop ==
    /\ (worker.exit = "eof") ~> (worker.pc = "done")
    /\ \A t \in Tid : (rec[t].pc = "finally") ~> (rec[t].pc = "dead")
    /\ [](/\ worker.pc = "done"
             => /\ worker.exit \in {"missing", "stop", "eof", "error"}
                /\ worker.proc =
                      IF worker.exit = "missing" THEN "none" ELSE "terminated"
          /\ worker.pc \in {"loop", "read", "segment", "whisper", "finally"}
             => worker.proc = "running"
          /\ \A t \in Tid :
                /\ rec[t].pc = "dead" => proc[t] # "running"
                /\ rec[t].pc \in {"loop", "read", "finally"}
                   => proc[t] = "running")
    /\ [][/\ worker.exit = "eof"
             => capture' = capture /\ worker'.pc \in {"finally", "done"}
          /\ (worker.pc = "read" /\ capture' = capture /\ worker' # worker)
             => worker'.exit = "eof" /\ worker'.pc = "finally"
          /\ \A t \in Tid :
                /\ record_worker_read(t, "") => rec'[t].pc = "finally"
                /\ rec[t].pc \in {"finally", "dead"}
                   => rec'[t].pc \in {"finally", "dead"}]_vars

\* The live loop has ended on the end of the stream and a recorder has ended,
\* each with its capture process terminated.
C16_Witness ==
    /\ worker.pc = "done"
    /\ worker.exit = "eof"
    /\ worker.proc = "terminated"
    /\ ~stop_event
    /\ \E t \in Tid : rec[t].pc = "dead" /\ ~stop_events[t]
                        /\ proc[t] = "terminated"

\* C17: a finishing thread calls the renderer exactly when segment_episode
\* returned a path; it shows one message, made from the three paths it
\* holds: subtitle generation failed exactly when there is no subtitle path,
\* video creation failed exactly when there is a subtitle path and no video
\* path, no failure and all three paths otherwise; it ends only after that
\* message.
C17_OneReportMatchingOutcome ==
    /\ [](\A t \in Tid :
             /\ Len(reports[t]) <= 1
             /\ Len(reports[t]) = 1 <=> helper[t].pc = "status"
             /\ helper[t].pc \in {"video", "video_run"}
                => helper[t].srt_path # NoPath
             /\ helper[t].video_path # NoPath => helper[t].srt_path # NoPath)
    /\ [][\A t \in Tid :
            /\ (helper[t].pc \in {"segment", "segment_run"}
                /\ helper'[t].pc \notin {"segment", "segment_run"})
               => /\ helper'[t].pc = "video" <=> helper'[t].srt_path # NoPath
                  /\ helper'[t].pc = "report" <=> helper'[t].srt_path = NoPath
            /\ (helper[t].pc = "report" /\ helper'[t].pc # "report")
               => /\ helper'[t].pc = "status"
                  /\ Len(reports'[t]) = 1
                  /\ LET msg == reports'[t][1]
                         srt_path == helper[t].srt_path
                         video_path == helper[t].video_path
                     IN /\ msg.saved = helper[t].wav_path
                        /\ msg.subtitles = srt_path
                        /\ msg.video = video_path
                        /\ msg.failed = "Subtitle generation"
                              <=> srt_path = NoPath
                        /\ msg.failed = "Video creation"
                              <=> srt_path # NoPath /\ video_path = NoPath
                        /\ msg.failed = "nothing"
                              <=> srt_path # NoPath /\ video_path # NoPath
            /\ (helper[t].pc # "done" /\ helper'[t].pc = "done")
               => helper[t].pc = "status"]_vars

\* The message of a thread whose renderer failed on the subtitle file it
\* was given.
C17_Witness ==
    \E t \in Tid :
       /\ helper[t].pc = "status"
       /\ reports[t][1].failed = "Video creation"
       /\ reports[t][1].subtitles # NoPath
       /\ reports[t][1].video = NoPath

\* The name of a path, as sorted() compares it.
FileName(path) == path.base \o DotSrt

\* C18: segment_episode returns None when the engine exits nonzero, whatever
\* files exist; after exit status 0 it returns <prefix>.srt when that file
\* exists, else the path that sorts first among the existing paths matching
\* <prefix>*.srt, and None when there is none.
C18_SubtitleLookup ==
    [][\A t \in {u \in Tid : /\ helper[u].pc = "segment_run"
                              /\ helper'[u].pc # "segment_run"} :
       \A returncode \in {0, 1}, present \in SUBSET SrtVariants :
          finish_segment_return(t, returncode, present)
          => LET out_prefix == helper[t].cmd.of
                 existing == {SrtFile(out_prefix, v) : v \in present}
                 exact == [dir |-> SUBTITLES_DIR, base |-> out_prefix.base,
                           ext |-> ".srt"]
                 srt_path == helper'[t].srt_path
             IN /\ returncode # 0 => srt_path = NoPath
                /\ (returncode = 0 /\ exact \in existing) => srt_path = exact
                /\ (returncode = 0 /\ exact \notin existing /\ existing # {})
                   => /\ srt_path \in existing
                      /\ \A other \in existing \ {srt_path} :
                            StrLess(FileName(srt_path), FileName(other))
                /\ (returncode = 0 /\ existing = {}) => srt_path = NoPath]_vars

\* segment_episode has returned a path that is not the expected one.
C18_Witness ==
    \E t \in Tid :
       /\ helper[t].pc = "video"
       /\ helper[t].srt_path = SrtFile(OutPrefix(helper[t].wav_path,
                                                helper[t].output_mode = "english"),
                                      <<"-", "1">>)

\* C19: while a call runs the only temporary file on disk is its WAV file;
\* when it has returned, whatever the exit status and whether or not the
\* engine wrote its text file, neither that WAV file nor that text file is
\* left, nor any file of a call before.
C19_NoTemporaryFileLeft ==
    /\ [](/\ ~call.running => call.files = {}
          /\ call.running => call.files = {TmpWav(Len(emitted))})
    /\ [][\A returncode \in {0, 1}, txt \in TxtOutputs :
            (/\ call.running
             /\ ~call'.running
             /\ audio_worker_whisper(returncode, txt))
            => /\ call.cmd.f \in call.files
               /\ call.cmd.f \notin call'.files
               /\ TxtPath(call.cmd.f) \notin call'.files
               /\ Cardinality(call'.files) <= Cardinality(call.files)]_vars

\* The third call has returned without a text.
C19_Witness ==
    /\ Len(emitted) = 3
    /\ worker.pc = "segment"
    /\ ~call.running
    /\ call.cmd.f = TmpWav(3)
    /\ call.text = <<>>
    /\ pushed # <<>>

\* C20: the mode of a call is the one AppConfig holds when the segment is
\* cut, after the call before has returned, and the language is the one it
\* holds when the call starts; the engine gets the translate flag exactly
\* for the mode english, and that language, or auto for None; no setter
\* changes the values of a call that runs or has returned.
C20_ConfigReadBeforeEachCall ==
    [][/\ (worker.pc = "segment" /\ worker'.pc = "call")
          => /\ ~call.running
             /\ call'.output_mode = config.output_mode
       /\ (worker.pc = "call" /\ worker'.pc = "whisper")
          => /\ call'.output_mode = call.output_mode
             /\ call'.lang_code = config.source_lang
             /\ call'.cmd.tr <=> call.output_mode = "english"
             /\ call'.cmd.l = IF config.source_lang = None THEN "auto"
                              ELSE config.source_lang
             /\ call'.running
       /\ (worker.pc = "call" /\ worker'.pc = "call")
          => call'.output_mode = call.output_mode
       /\ worker.pc = "whisper"
          => /\ call'.output_mode = call.output_mode
             /\ call'.lang_code = call.lang_code
             /\ call'.cmd = call.cmd]_vars

\* The second call runs with the mode and the language chosen during the
\* first one, while AppConfig holds other values again.
C20_Witness ==
    /\ Len(emitted) = 2
    /\ call.running
    /\ call.output_mode = "original"
    /\ call.lang_code = "hi"
    /\ call.cmd.l = "hi"
    /\ ~call.cmd.tr
    /\ config = [output_mode |-> "english", source_lang |-> None]

\* C21: the put of the live loop is enabled whatever the number of lines
\* not yet polled; every step leaves the lines put so far as they were or
\* adds one at the end, and the text box only grows at its end, so a line is
\* inserted once and in the order of the puts; and while the window is open
\* and polls, the n-th line put is inserted in the end.
C21_PutNeverWaitsPollDelivers ==
    /\ [](worker.pc = "whisper"
            => \A returncode \in {0, 1}, txt \in TxtOutputs :
                  ENABLED audio_worker_whisper(returncode, txt))
    /\ [][/\ \/ (text_box \o text_queue)' = pushed
              \/ (text_box \o text_queue)' = Append(pushed, call'.text)
          /\ Len(text_box') >= Len(text_box)
          /\ SubSeq(text_box', 1, Len(text_box)) = text_box]_vars
    /\ \A n \in 1..(MaxStreamSec \div STEP_SEC) :
          (Len(pushed) >= n) ~> (Len(text_box) >= n \/ stop_event)

\* A put is about to be made on a queue that holds two unread lines, while
\* poll_queue is inside its loop and has inserted one line.
C21_Witness ==
    /\ worker.pc = "whisper"
    /\ Len(text_queue) = 2
    /\ Len(text_box) = 1
    /\ poll = "get"
    /\ ~stop_event

\* The recorder thread created by the latest accepted start.
IsLatest(t) ==
    /\ rec[t].pc # "unstarted"
    /\ \A u \in Tid : u > t => rec[u].pc = "unstarted"

\* C22: whenever the status reads "Overlay running. Not recording." no
\* recorder thread is running, and while the recorder of the latest start
\* runs, the last step of an earlier session's pipeline does not set the
\* status back to "not recording".
C22_StatusAgreesWithRecorder ==
    /\ [](status_var = StatusNotRecording => \A t \in Tid : ~IsAlive(t))
    /\ [][\A t, u \in Tid :
            (/\ IsLatest(t)
             /\ IsAlive(t)
             /\ u < t
             /\ helper[u].pc = "status"
             /\ helper'[u].pc = "done")
            => status_var' # StatusNotRecording]_vars

\* Recorder t has its WAV file open for writing: from wave.open to the end
\* of the with block.
FileOpen(t) == rec[t].pc \in {"loop", "read", "finally"}

\* Finishing thread u waits for its recorder or transcribes the recording.
UsesRecording(u) == helper[u].pc \in {"join", "segment", "segment_run"}

\* C23: while a finishing thread waits on or transcribes a recording, no
\* recorder other than its own has the file of that path open for writing.
C23_NoWriterWhileTranscribing ==
    \A u \in Tid : \A t \in Tid \ {u} :
       (UsesRecording(u) /\ FileOpen(t)) => rec[t].path # helper[u].wav_path

====
